---- MODULE Spec2Model ----
(***************************************************************************)
(* A model of the rents application's server-side handlers                 *)
(* (rents/rental_management_system/api.py) and of its role-seeding patch   *)
(* (rents/patches/create_landlord_tenant_roles.py).                        *)
(*                                                                         *)
(* Python values are tagged records [t, v]: strings are sequences of       *)
(* one-character strings so that startswith is computed, dicts are         *)
(* functions from keys to values.                                          *)
(***************************************************************************)
EXTENDS Integers, Sequences, FiniteSets, TLC

VARIABLES
    \* the Property table, the File table, and the tables as of the last
    \* frappe.db.commit()
    properties, files, committed,
    \* the last call handled, the payload it returned, the calls handled
    request, result, nops,
    \* two update_property calls in flight: where each is, its arguments, the
    \* document it loaded, its in-memory document after the field loops, the
    \* payload it returned, and the callers in the order their saves landed
    cpc, cargs, cdoc, cloop, cres, saves,
    \* the Payment table and what the two aggregate queries last returned
    payments, total_paid, total_pending,
    \* the Role table, the runs of the patch so far, the rows its last run
    \* inserted, the exception that ended it, and the table after its first run
    roles, runs, n_inserted, patch_raised, after_first,
    \* the User, Has Role and Rental tables and what get_users_with_roles last
    \* returned
    users, has_role, rentals, dashboard,
    \* the titles of the rows frappe.log_error wrote to the Error Log
    error_log

repoVars == <<properties, files, committed, request, result, nops>>

concVars == <<cpc, cargs, cdoc, cloop, cres, saves>>

payVars == <<payments, total_paid, total_pending>>

roleVars == <<roles, runs, n_inserted, patch_raised, after_first>>

dashVars == <<users, has_role, rentals, dashboard>>

vars == <<repoVars, concVars, payVars, roleVars, dashVars, error_log>>

\* ---------------------------------------------------------------- bounds

\* The number of create_property / update_property calls of one behaviour.
MaxOps == 2

\* The number of rows of the Payment table.
MaxPayments == 2

\* The number of runs of the role patch.
MaxRuns == 2

\* The number of rows of the Rental table.
MaxRentals == 2

\* ---------------------------------------------------------- Python values

NoneVal == [t |-> "none", v |-> <<>>]

Str(s) == [t |-> "str", v |-> s]

Num(n) == [t |-> "int", v |-> n]

Dict(d) == [t |-> "dict", v |-> d]

List(l) == [t |-> "list", v |-> l]

\* Python truthiness: None, "", {} and [] are falsy.
Truthy(x) ==
    CASE x.t = "none" -> FALSE
      [] x.t = "int"  -> x.v # 0
      [] x.t = "str"  -> Len(x.v) > 0
      [] x.t = "dict" -> DOMAIN x.v # {}
      [] OTHER        -> Len(x.v) > 0

\* dict.get(key): None when the key is absent.
Get(d, key) == IF key \in DOMAIN d THEN d[key] ELSE NoneVal

\* str.startswith(prefix)
StartsWith(s, prefix) ==
    /\ Len(s) >= Len(prefix)
    /\ SubSeq(s, 1, Len(prefix)) = prefix

FILES_PREFIX == <<"/", "f", "i", "l", "e", "s", "/">>

PRIVATE_FILES_PREFIX ==
    <<"/", "p", "r", "i", "v", "a", "t", "e", "/", "f", "i", "l", "e", "s", "/">>

\* ------------------------------------------------------------ Property

updateable_fields ==
    <<"title", "location", "price_tzs", "bedrooms",
      "bathroom", "status", "description", "square_meters">>

image_fields == <<"image", "image_1", "image_2", "image_3", "image_4">>

Range(s) == {s[i] : i \in DOMAIN s}

DocFields == Range(updateable_fields) \cup Range(image_fields)

\* NewPropertyDoc with the bathroom count read from the bedrooms key.
NewPropertyDocSwapped(data) ==
    [f \in DocFields |->
        CASE f = "bathroom" -> Get(data, "bedrooms")
          [] f \in Range(updateable_fields) -> Get(data, f)
          [] OTHER -> NoneVal]

\* frappe.get_doc({...}) of create_property: the eight scalar fields are read
\* from data with dict.get, the image fields are left unset.
NewPropertyDoc(data) ==
    [f \in DocFields |->
        CASE f = "title"         -> Get(data, "title")
          [] f = "location"      -> Get(data, "location")
          [] f = "price_tzs"     -> Get(data, "price_tzs")
          [] f = "bedrooms"      -> Get(data, "bedrooms")
          [] f = "bathroom"      -> Get(data, "bathroom")
          [] f = "status"        -> Get(data, "status")
          [] f = "description"   -> Get(data, "description")
          [] f = "square_meters" -> Get(data, "square_meters")
          [] OTHER               -> NoneVal]

\* save_file(filename, content, doctype, name, folder, is_private=0): the File
\* record it inserts; a public file's URL is "/files/" + filename.
save_file(filename, content, doctype, name) ==
    [file_url            |-> Str(FILES_PREFIX \o filename.v),
     content             |-> content,
     attached_to_doctype |-> doctype,
     attached_to_name    |-> name]

\* handle_image_upload without the prefix test: every string is returned as a
\* file URL.
handle_image_upload_any_string(name, file_data, fs, save_file_ok) ==
    IF ~Truthy(file_data)
    THEN [raised |-> "none", value |-> NoneVal, files |-> fs]
    ELSE IF file_data.t = "str"
    THEN [raised |-> "none", value |-> file_data, files |-> fs]
    ELSE IF file_data.t # "dict"
    THEN [raised |-> "AttributeError", value |-> NoneVal, files |-> fs]
    ELSE LET filename == Get(file_data.v, "filename")
             content  == Get(file_data.v, "content")
         IN  IF ~(Truthy(filename) /\ Truthy(content))
             THEN [raised |-> "none", value |-> NoneVal, files |-> fs]
             ELSE IF ~save_file_ok
             THEN [raised |-> "SaveFileError", value |-> NoneVal, files |-> fs]
             ELSE LET file_doc == save_file(filename, content, "Property", name)
                  IN  [raised |-> "none",
                       value  |-> file_doc.file_url,
                       files  |-> fs \cup {file_doc}]

\* handle_image_upload recognising the public prefix only.
handle_image_upload_public_only(name, file_data, fs, save_file_ok) ==
    IF file_data.t = "str" /\ StartsWith(file_data.v, PRIVATE_FILES_PREFIX)
    THEN [raised |-> "none", value |-> NoneVal, files |-> fs]
    ELSE handle_image_upload_any_string(name, file_data, fs, save_file_ok)

\* handle_image_upload(doc, field_name, file_data) on the file table fs.
\* save_file_ok says whether save_file, if reached, returns (it may raise).
\* The outcome: raised (the exception that left the helper, "none" when it
\* returned), value (what it returned) and files (the file table afterwards).
handle_image_upload(name, file_data, fs, save_file_ok) ==
    IF ~Truthy(file_data)
    THEN [raised |-> "none", value |-> NoneVal, files |-> fs]
    ELSE IF file_data.t = "str"
    THEN IF \/ StartsWith(file_data.v, FILES_PREFIX)
            \/ StartsWith(file_data.v, PRIVATE_FILES_PREFIX)
         THEN [raised |-> "none", value |-> file_data, files |-> fs]
         ELSE [raised |-> "none", value |-> NoneVal, files |-> fs]
    ELSE IF file_data.t # "dict"
    \* file_data.get on a value that is neither str nor dict: AttributeError
    THEN [raised |-> "AttributeError", value |-> NoneVal, files |-> fs]
    ELSE LET filename == Get(file_data.v, "filename")
             content  == Get(file_data.v, "content")
         IN  IF ~(Truthy(filename) /\ Truthy(content))
             THEN [raised |-> "none", value |-> NoneVal, files |-> fs]
             ELSE IF ~save_file_ok
             THEN [raised |-> "SaveFileError", value |-> NoneVal, files |-> fs]
             ELSE LET file_doc == save_file(filename, content, "Property", name)
                  IN  [raised |-> "none",
                       value  |-> file_doc.file_url,
                       files  |-> fs \cup {file_doc}]

\* The guard of create_property's image loop: presence and truthiness.
CreateSlotGuard(data, field) == field \in DOMAIN data /\ Truthy(data[field])

\* The guard of update_property's image loop: presence only.
UpdateSlotGuard(data, field) == field \in DOMAIN data

\* One iteration of the image loop on the in-memory document: resolve the
\* slot when guarded in, and set the field when the helper returned a truthy
\* URL.  acc = [doc, files, raised]; an exception ends the loop.
ImageStep(acc, name, data, field, guarded, save_file_ok) ==
    IF acc.raised # "none" \/ ~guarded
    THEN acc
    ELSE LET r == handle_image_upload(name, data[field], acc.files, save_file_ok)
         IN  IF r.raised # "none"
             THEN [doc |-> acc.doc, files |-> r.files, raised |-> r.raised]
             ELSE [doc    |-> IF Truthy(r.value)
                              THEN [acc.doc EXCEPT ![field] = r.value]
                              ELSE acc.doc,
                   files  |-> r.files,
                   raised |-> "none"]

\* for field in image_fields, in create_property; fault names the slot whose
\* save_file call raises ("none": no call raises).
RECURSIVE CreateImageLoop(_, _, _, _, _)
CreateImageLoop(i, acc, name, data, fault) ==
    IF i > Len(image_fields)
    THEN acc
    ELSE CreateImageLoop(i + 1,
            ImageStep(acc, name, data, image_fields[i],
                      CreateSlotGuard(data, image_fields[i]),
                      fault # image_fields[i]),
            name, data, fault)

\* for field in image_fields, in update_property.
RECURSIVE UpdateImageLoop(_, _, _, _, _)
UpdateImageLoop(i, acc, name, data, fault) ==
    IF i > Len(image_fields)
    THEN acc
    ELSE UpdateImageLoop(i + 1,
            ImageStep(acc, name, data, image_fields[i],
                      UpdateSlotGuard(data, image_fields[i]),
                      fault # image_fields[i]),
            name, data, fault)

\* for field in updateable_fields: if field in data: doc.set(field, ...)
SetUpdateableFields(doc, data) ==
    [f \in DocFields |->
        IF f \in Range(updateable_fields) /\ f \in DOMAIN data
        THEN Get(data, f)
        ELSE doc[f]]

\* get_properties(): every row of tabProperty projected to the selected
\* columns, in table order.
get_properties(props) ==
    [n \in DOMAIN props |->
        [name          |-> n,
         title         |-> props[n]["title"],
         location      |-> props[n]["location"],
         price_tzs     |-> props[n]["price_tzs"],
         bedrooms      |-> props[n]["bedrooms"],
         bathroom      |-> props[n]["bathroom"],
         square_meters |-> props[n]["square_meters"],
         description   |-> props[n]["description"],
         status        |-> props[n]["status"],
         image         |-> props[n]["image"]]]

\* The payloads the two handlers return.
CreatedPayload(doc, name) ==
    [message |-> [template |-> "created successfully", title |-> doc["title"]],
     property |-> name]

CreateErrorPayload(exc) ==
    [error |-> [template |-> "An error occurred while creating the property",
                exception |-> exc]]

UpdatedPayload(doc, name) ==
    [message |-> [template |-> "updated successfully", title |-> doc["title"]],
     property |-> name]

\* UpdateErrorPayload with the generic except clause taken for every
\* exception.
UpdateErrorPayloadGeneric(exc, name) ==
    [error |-> [template |-> "An error occurred while updating the property",
                exception |-> exc]]

\* The except clauses of update_property, in order: frappe.DoesNotExistError
\* first, any other Exception second.
UpdateErrorPayload(exc, name) ==
    IF exc = "DoesNotExistError"
    THEN [error |-> [template |-> "Property with name does not exist",
                     name |-> name]]
    ELSE [error |-> [template |-> "An error occurred while updating the property",
                     exception |-> exc]]

IsError(r) == "error" \in DOMAIN r

IsSuccess(r) == "message" \in DOMAIN r

\* property_doc.insert(): the new row gets the next name of the table.
InsertDoc(props, doc) == Append(props, doc)

\* SaveDoc writing every column but the title.
SaveDocKeepTitle(props, name, doc) ==
    [props EXCEPT ![name] = [doc EXCEPT !["title"] = props[name]["title"]]]

\* property_doc.save(): the row of that name is overwritten by the in-memory
\* document.
SaveDoc(props, name, doc) == [props EXCEPT ![name] = doc]

\* create_property(data), as a function of the tables it starts from.  fault
\* is the call of the framework that raises: "none", "insert", "save", or the
\* image field whose save_file raises.  commit says whether frappe.db.commit()
\* was reached, log holds the title frappe.log_error was called with.
CreateOutcome(props, fs, data, fault) ==
    IF fault = "insert"
    THEN [properties |-> props, files |-> fs, commit |-> FALSE,
          log |-> {"Property Creation Error"},
          result |-> CreateErrorPayload("InsertError")]
    ELSE LET doc0     == NewPropertyDoc(data)
             inserted == InsertDoc(props, doc0)
             name     == Len(inserted)
             loop     == CreateImageLoop(1,
                            [doc |-> doc0, files |-> fs, raised |-> "none"],
                            name, data, fault)
         IN  IF loop.raised # "none"
             THEN [properties |-> inserted, files |-> loop.files,
                   commit |-> FALSE,
          log |-> {"Property Creation Error"},
                   result |-> CreateErrorPayload(loop.raised)]
             ELSE IF fault = "save"
             THEN [properties |-> inserted, files |-> loop.files,
                   commit |-> FALSE,
          log |-> {"Property Creation Error"},
                   result |-> CreateErrorPayload("SaveError")]
             ELSE [properties |-> SaveDoc(inserted, name, loop.doc),
                   files |-> loop.files, commit |-> TRUE, log |-> {},
                   result |-> CreatedPayload(loop.doc, name)]

\* update_property(name, data) between frappe.get_doc, which returned the
\* document doc, and save: the two field loops on the in-memory document.
UpdateFields(fs, name, doc, data, fault) ==
    UpdateImageLoop(1,
        [doc    |-> SetUpdateableFields(doc, data),
         files  |-> fs,
         raised |-> "none"],
        name, data, fault)

\* update_property(name, data) from the end of the loops: property_doc.save(),
\* frappe.db.commit() and the payload returned.
UpdateSave(props, name, loop, fault) ==
    IF loop.raised # "none"
    THEN [properties |-> props, files |-> loop.files, commit |-> FALSE,
          log |-> {"Property Update Error"},
          result |-> UpdateErrorPayload(loop.raised, name)]
    ELSE IF fault = "save"
    THEN [properties |-> props, files |-> loop.files, commit |-> FALSE,
          log |-> {"Property Update Error"},
          result |-> UpdateErrorPayload("SaveError", name)]
    ELSE [properties |-> SaveDoc(props, name, loop.doc),
          files |-> loop.files, commit |-> TRUE, log |-> {},
          result |-> UpdatedPayload(loop.doc, name)]

\* update_property(name, data): frappe.get_doc raises DoesNotExistError for
\* a name that is no row of the table.
UpdateOutcome(props, fs, name, data, fault) ==
    IF name \notin DOMAIN props
    THEN [properties |-> props, files |-> fs, commit |-> FALSE,
          log |-> {"Property Update Error"},
          result |-> UpdateErrorPayload("DoesNotExistError", name)]
    ELSE UpdateSave(props, name,
                    UpdateFields(fs, name, props[name], data, fault), fault)

\* ------------------------------------------------------------ inputs

PathA == FILES_PREFIX \o <<"a">>

PrivatePathA == PRIVATE_FILES_PREFIX \o <<"a">>

ValidPayload == Dict([filename |-> Str(<<"a">>), content |-> Str(<<"x">>)])

\* Every shape of value an image slot of the request can carry.
ImageValues ==
    { NoneVal,
      Str(<<>>),
      Dict(<<>>),
      Str(PathA),
      Str(PrivatePathA),
      Str(Tail(PathA)),                      \* "files/a": no leading slash
      Str(SubSeq(FILES_PREFIX, 1, 6)),       \* "/files": no trailing slash
      ValidPayload,
      Dict([filename |-> Str(<<"a">>)]),
      Dict([content |-> Str(<<"x">>)]),
      Dict([filename |-> Str(<<>>), content |-> Str(<<"x">>)]),
      Dict([filename |-> Str(<<"a">>), content |-> Str(<<>>)]),
      List(<<1>>) }

\* The shapes tried on the four later slots.
OtherSlotValues == { Str(<<>>), ValidPayload }

FullScalars ==
    [title         |-> Str(<<"t">>),
     location      |-> Str(<<"l">>),
     price_tzs     |-> Num(500),
     bedrooms      |-> Num(3),
     bathroom      |-> Num(2),
     status        |-> Str(<<"s">>),
     description   |-> Str(<<"d">>),
     square_meters |-> Num(80)]

ScalarSamples ==
    { <<>>,
      FullScalars,
      [title |-> Str(<<"u">>), bedrooms |-> NoneVal] }

\* Request bodies that carry several image slots.
MultiSlotSamples ==
    { [f \in Range(image_fields) |-> ValidPayload],
      ("image" :> ValidPayload) @@ ("image_1" :> List(<<1>>)),
      ("image" :> Str(<<>>)) @@ ("image_2" :> Str(PrivatePathA)) }

ImageSamples ==
    {("image" :> v) : v \in ImageValues}
    \cup {(image_fields[i] :> v) : i \in 2..Len(image_fields), v \in OtherSlotValues}
    \cup MultiSlotSamples

\* The request bodies tried.
DataInputs ==
    ScalarSamples
    \cup ImageSamples
    \cup {FullScalars @@ d :
            d \in MultiSlotSamples
                  \cup {("image" :> ValidPayload), ("image" :> Str(PathA))}}

\* save_file is called on a slot exactly when the slot carries a payload with
\* a filename and a content.
CallsSaveFile(data, field) ==
    /\ field \in DOMAIN data
    /\ data[field].t = "dict"
    /\ Truthy(Get(data[field].v, "filename"))
    /\ Truthy(Get(data[field].v, "content"))

Faults(data) ==
    {"none", "insert", "save"}
    \cup {f \in Range(image_fields) : CallsSaveFile(data, f)}

NoRequest == [op |-> "none"]

NoResult == [idle |-> TRUE]

\* ------------------------------------------------------------ actions

Callers == {1, 2}

NoDoc == <<>>

ConcIdle ==
    /\ cpc = [p \in Callers |-> "idle"]
    /\ cargs = [p \in Callers |-> NoRequest]
    /\ cdoc = [p \in Callers |-> NoDoc]
    /\ cloop = [p \in Callers |-> NoDoc]
    /\ cres = [p \in Callers |-> NoResult]
    /\ saves = <<>>

RepoInit ==
    /\ properties = <<>>
    /\ files = {}
    /\ committed = [properties |-> <<>>, files |-> {}]
    /\ request = NoRequest
    /\ result = NoResult
    /\ nops = 0

NotCalled == [t |-> "notcalled", v |-> <<>>]

PayIdle ==
    /\ payments = <<>>
    /\ total_paid = NotCalled
    /\ total_pending = NotCalled

RoleIdle ==
    /\ roles = <<>>
    /\ runs = 0
    /\ n_inserted = 0
    /\ patch_raised = "none"
    /\ after_first = <<>>

\* dashboard before any call, and after one that returned the list l.
NoList == [returned |-> FALSE, list |-> <<>>]

Returned(l) == [returned |-> TRUE, list |-> l]

DashIdle ==
    /\ users = <<>>
    /\ has_role = {}
    /\ rentals = <<>>
    /\ dashboard = NoList
    /\ error_log = {}

PropInit == RepoInit /\ ConcIdle /\ PayIdle /\ RoleIdle /\ DashIdle

Apply(out) ==
    /\ properties' = out.properties
    /\ files' = out.files
    /\ committed' = IF out.commit
                    THEN [properties |-> out.properties, files |-> out.files]
                    ELSE committed
    /\ result' = out.result
    /\ error_log' = error_log \cup out.log
    /\ nops' = nops + 1
    /\ UNCHANGED <<concVars, payVars, roleVars, dashVars>>

create_property(data, fault) ==
    /\ nops < MaxOps
    /\ request' = [op |-> "create_property", data |-> data]
    /\ Apply(CreateOutcome(properties, files, data, fault))

update_property(name, data, fault) ==
    /\ nops < MaxOps
    /\ fault # "insert"
    /\ request' = [op |-> "update_property", name |-> name, data |-> data]
    /\ Apply(UpdateOutcome(properties, files, name, data, fault))

Next ==
    \/ \E data \in DataInputs : \E fault \in Faults(data) :
            create_property(data, fault)
    \/ \E name \in 1..MaxOps : \E data \in DataInputs :
            \E fault \in Faults(data) : update_property(name, data, fault)

Spec == PropInit /\ [][Next]_vars

\* handle_image_upload called on its own, on the document of some name.
HandleImageUploadCall(name, file_data, save_file_ok) ==
    /\ nops < MaxOps
    /\ save_file_ok \/ CallsSaveFile([image |-> file_data], "image")
    /\ LET r == handle_image_upload(name, file_data, files, save_file_ok)
       IN  /\ request' = [op |-> "handle_image_upload", name |-> name,
                          file_data |-> file_data]
           /\ result' = [raised |-> r.raised, value |-> r.value]
           /\ files' = r.files
    /\ nops' = nops + 1
    /\ UNCHANGED <<properties, committed, concVars, payVars, roleVars, dashVars,
                   error_log>>

ResolveInputs ==
    ImageValues
    \cup { Num(5), Dict([filename |-> Str(<<"b">>), content |-> Str(<<"x">>)]) }

ResolveNext ==
    \E name \in 1..MaxOps : \E file_data \in ResolveInputs :
        \E save_file_ok \in BOOLEAN :
            HandleImageUploadCall(name, file_data, save_file_ok)

SpecResolve == PropInit /\ [][ResolveNext]_vars

\* ------------------------------------------- two update_property calls

\* frappe.get_doc("Property", name) of caller p.
GetDoc(p) ==
    /\ cpc[p] = "start"
    /\ IF cargs[p].name \notin DOMAIN properties
       THEN /\ cres' = [cres EXCEPT ![p] =
                            UpdateErrorPayload("DoesNotExistError", cargs[p].name)]
            /\ cpc' = [cpc EXCEPT ![p] = "done"]
            /\ error_log' = error_log \cup {"Property Update Error"}
            /\ UNCHANGED cdoc
       ELSE /\ cdoc' = [cdoc EXCEPT ![p] = properties[cargs[p].name]]
            /\ cpc' = [cpc EXCEPT ![p] = "loaded"]
            /\ UNCHANGED <<cres, error_log>>
    /\ UNCHANGED <<repoVars, cargs, cloop, saves, payVars, roleVars, dashVars>>

\* The two field loops of caller p, on the document it loaded; save_file
\* writes to the File table as the image loop goes.
SetFields(p, fault) ==
    /\ cpc[p] = "loaded"
    /\ LET loop == UpdateFields(files, cargs[p].name, cdoc[p], cargs[p].data, fault)
       IN  /\ cloop' = [cloop EXCEPT ![p] = loop]
           /\ files' = loop.files
    /\ cpc' = [cpc EXCEPT ![p] = "built"]
    /\ UNCHANGED <<properties, committed, request, result, nops,
                   cargs, cdoc, cres, saves, payVars, roleVars, dashVars,
                   error_log>>

\* property_doc.save(), frappe.db.commit() and the return of caller p.
SaveAndReturn(p, fault) ==
    /\ cpc[p] = "built"
    /\ LET out == UpdateSave(properties, cargs[p].name,
                             [cloop[p] EXCEPT !.files = files], fault)
       IN  /\ properties' = out.properties
           /\ committed' = IF out.commit
                           THEN [properties |-> out.properties, files |-> files]
                           ELSE committed
           /\ cres' = [cres EXCEPT ![p] = out.result]
           /\ saves' = IF out.commit THEN Append(saves, p) ELSE saves
           /\ error_log' = error_log \cup out.log
    /\ cpc' = [cpc EXCEPT ![p] = "done"]
    /\ UNCHANGED <<files, request, result, nops, cargs, cdoc, cloop,
                   payVars, roleVars, dashVars>>

\* The record the two calls start from: one created by create_property.
ConcSeeds == { FullScalars, FullScalars @@ ("image" :> ValidPayload) }

\* The request bodies of the two calls.
ConcData ==
    { <<>>,
      [title |-> Str(<<"u">>)],
      [location |-> Str(<<"m">>)],
      [title |-> Str(<<"w">>), image_1 |-> ValidPayload],
      [image |-> Str(PrivatePathA)],
      [image |-> List(<<1>>)] }

ConcNames == {1, 2}

ConcInit ==
    /\ \E seed \in ConcSeeds :
          LET out == CreateOutcome(<<>>, {}, seed, "none")
          IN  /\ properties = out.properties
              /\ files = out.files
              /\ committed = [properties |-> out.properties, files |-> out.files]
    /\ request = NoRequest
    /\ result = NoResult
    /\ nops = 0
    /\ cpc = [p \in Callers |-> "start"]
    /\ cargs \in [Callers -> [op : {"update_property"}, name : ConcNames,
                              data : ConcData]]
    /\ cdoc = [p \in Callers |-> NoDoc]
    /\ cloop = [p \in Callers |-> NoDoc]
    /\ cres = [p \in Callers |-> NoResult]
    /\ saves = <<>>
    /\ PayIdle
    /\ RoleIdle
    /\ DashIdle

ConcNext ==
    \E p \in Callers :
        \/ GetDoc(p)
        \/ \E fault \in Faults(cargs[p].data) \ {"insert", "save"} :
                SetFields(p, fault)
        \/ \E fault \in {"none", "save"} : SaveAndReturn(p, fault)

SpecConc == ConcInit /\ [][ConcNext]_vars

\* ------------------------------------------------------------ payments

\* SELECT SUM(amount_tzs) over the rows selected: NULL when there is none.
RECURSIVE SumAmounts(_)
SumAmounts(rows) ==
    IF rows = <<>> THEN 0 ELSE Head(rows).amount_tzs + SumAmounts(Tail(rows))

SqlSum(rows) == IF rows = <<>> THEN NoneVal ELSE Num(SumAmounts(rows))

\* total_rent[0][0] if total_rent and total_rent[0][0] else 0.0
SumOrZero(sum) == IF Truthy(sum) THEN sum ELSE Num(0)

\* WHERE docstatus = 1
PaidRows(rows) == SelectSeq(rows, LAMBDA r : r.docstatus = 1)

\* The WHERE clause of get_pending_rent with the filter of
\* get_total_rent_paid_all.
PendingRowsPaidFilter(rows) == SelectSeq(rows, LAMBDA r : r.docstatus = 1)

\* WHERE docstatus = 0
PendingRows(rows) == SelectSeq(rows, LAMBDA r : r.docstatus = 0)

get_total_rent_paid_all ==
    /\ total_paid' = SumOrZero(SqlSum(PaidRows(payments)))
    /\ UNCHANGED <<payments, total_pending, repoVars, concVars, roleVars, dashVars,
                   error_log>>

get_pending_rent ==
    /\ total_pending' = SumOrZero(SqlSum(PendingRows(payments)))
    /\ UNCHANGED <<payments, total_paid, repoVars, concVars, roleVars, dashVars,
                   error_log>>

\* The rows a Payment table is drawn from: draft (0), submitted (1) and
\* cancelled (2) payments.
PaymentRows == [amount_tzs : {0, 100, 250}, docstatus : {0, 1, 2}]

RECURSIVE SeqsUpTo(_, _)
SeqsUpTo(S, n) ==
    IF n = 0
    THEN {<<>>}
    ELSE LET shorter == SeqsUpTo(S, n - 1)
         IN  shorter \cup {Append(q, x) : q \in shorter, x \in S}

PayInit ==
    /\ payments \in SeqsUpTo(PaymentRows, MaxPayments)
    /\ total_paid = NotCalled
    /\ total_pending = NotCalled
    /\ RepoInit
    /\ ConcIdle
    /\ RoleIdle
    /\ DashIdle

PayNext == get_total_rent_paid_all \/ get_pending_rent

SpecPay == PayInit /\ [][PayNext]_vars

\* ------------------------------------------------------------ role patch

\* RoleExists answering no for every name.
RoleExistsNever(table, name) == FALSE

\* frappe.db.exists("Role", name)
RoleExists(table, name) == \E i \in DOMAIN table : table[i].name = name

\* frappe.new_doc("Role") with role_name, desk_access = 1, is_custom = 1.
NewRole(role_name) ==
    [name |-> role_name, role_name |-> role_name, desk_access |-> 1,
     is_custom |-> 1]

\* role.insert(ignore_permissions=True): a Role is named by its role_name, and
\* a second row of a name is refused.  acc = [roles, inserted, raised].
InsertRole(acc, doc) ==
    IF \E i \in DOMAIN acc.roles : acc.roles[i].name = doc.name
    THEN [acc EXCEPT !.raised = "DuplicateEntryError"]
    ELSE [roles    |-> Append(acc.roles, doc),
          inserted |-> acc.inserted + 1,
          raised   |-> acc.raised]

\* One "if not frappe.db.exists(...)" block of execute(); an exception raised
\* earlier has ended the patch.
EnsureRole(acc, role_name) ==
    IF acc.raised # "none" \/ RoleExists(acc.roles, role_name)
    THEN acc
    ELSE InsertRole(acc, NewRole(role_name))

\* execute()
ExecuteOutcome(table) ==
    EnsureRole(
        EnsureRole([roles |-> table, inserted |-> 0, raised |-> "none"],
                   "Landlord"),
        "Tenant")

execute ==
    /\ runs < MaxRuns
    /\ LET out == ExecuteOutcome(roles)
       IN  /\ roles' = out.roles
           /\ n_inserted' = out.inserted
           /\ patch_raised' = out.raised
           /\ after_first' = IF runs = 0 THEN out.roles ELSE after_first
    /\ runs' = runs + 1
    /\ UNCHANGED <<repoVars, concVars, payVars, dashVars, error_log>>

\* The roles a site may hold before the patch runs, in table order.
ExistingRoleNames ==
    <<"System Manager", "Guest", "Landlord", "Tenants", "Tenant", "Administrator">>

ExistingRole(role_name) ==
    [name |-> role_name, role_name |-> role_name, desk_access |-> 0,
     is_custom |-> 0]

RoleInit ==
    /\ \E present \in SUBSET Range(ExistingRoleNames) :
          roles = [i \in 1..Cardinality(present) |->
                     ExistingRole(
                        SelectSeq(ExistingRoleNames,
                                  LAMBDA n : n \in present)[i])]
    /\ runs = 0
    /\ n_inserted = 0
    /\ patch_raised = "none"
    /\ after_first = <<>>
    /\ RepoInit
    /\ ConcIdle
    /\ PayIdle
    /\ DashIdle

RoleNext == execute

SpecRoles == RoleInit /\ [][RoleNext]_vars

\* ------------------------------------------------------------ dashboard

\* SELECT role FROM `tabHas Role` WHERE parent = user
RolesOf(user) == {hr.role : hr \in {x \in has_role : x.parent = user}}

\* SELECT DISTINCT u.* ... INNER JOIN `tabHas Role` ... WHERE hr.role IN
\* ('Tenants', 'System Manager') AND u.enabled = 1: the rows selected.
SelectedUsers ==
    {i \in DOMAIN users :
        /\ users[i].enabled = 1
        /\ RolesOf(users[i].name) \cap {"Tenants", "System Manager"} # {}}

\* ORDER BY u.full_name: the selected rows as a list, smallest name first.
RECURSIVE OrderByFullName(_)
OrderByFullName(rows) ==
    IF rows = {}
    THEN <<>>
    ELSE LET first == CHOOSE i \in rows :
                        \A j \in rows : users[i].full_name <= users[j].full_name
         IN  <<first>> \o OrderByFullName(rows \ {first})

\* LatestActiveRentals without the status filter.
LatestRentalsAnyStatus(tenant) ==
    LET rows == {i \in DOMAIN rentals : rentals[i].tenant = tenant}
    IN  {i \in rows : \A j \in rows : rentals[i].creation >= rentals[j].creation}

\* WHERE r.tenant = user AND r.status = 'Active' ORDER BY r.creation DESC
\* LIMIT 1: the rows the query may return first (rows of one creation time
\* come in an order SQL leaves open).
LatestActiveRentals(tenant) ==
    LET rows == {i \in DOMAIN rentals :
                    rentals[i].tenant = tenant /\ rentals[i].status = "Active"}
    IN  {i \in rows : \A j \in rows : rentals[i].creation >= rentals[j].creation}

\* LEFT JOIN `tabProperty` p ON r.property = p.name: p.title, NULL when no
\* Property has that name.
PropertyTitle(property) ==
    IF property.t = "int" /\ property.v \in DOMAIN properties
    THEN properties[property.v]["title"]
    ELSE NoneVal

UserColumns(u) ==
    [name |-> u.name, email |-> u.email, full_name |-> u.full_name,
     user_image |-> u.user_image, phone |-> u.phone]

\* The dict of one user of the result; pick is the rental row the LIMIT 1
\* query returned for that user (0: no row).
UserEntry(u, pick) ==
    LET base == UserColumns(u) @@ [roles |-> RolesOf(u.name)]
    IN  IF "Tenants" \in RolesOf(u.name)
        THEN IF pick # 0
             THEN base @@
                  [assigned_property |-> rentals[pick].property,
                   property_name     |-> PropertyTitle(rentals[pick].property),
                   lease_start       |-> rentals[pick].start_date,
                   lease_end         |-> rentals[pick].end_date,
                   monthly_rent      |-> rentals[pick].monthly_rent,
                   rental_status     |-> "Active"]
             ELSE base @@
                  [rental_status     |-> "Inactive",
                   assigned_property |-> NoneVal,
                   property_name     |-> NoneVal]
        ELSE base @@
             [rental_status     |-> "N/A",
              assigned_property |-> NoneVal,
              property_name     |-> NoneVal]

\* The picks the rental query allows for a user.
PicksOf(user) ==
    IF LatestActiveRentals(user) = {} THEN {0} ELSE LatestActiveRentals(user)

\* get_users_with_roles(); db_ok says whether every query ran (a query that
\* raises is logged and the function returns []).
get_users_with_roles(db_ok) ==
    /\ IF db_ok
       THEN /\ \E pick \in [DOMAIN users -> 0..Len(rentals)] :
                  /\ \A i \in DOMAIN users : pick[i] \in PicksOf(users[i].name)
                  /\ dashboard' = Returned(
                        [k \in DOMAIN OrderByFullName(SelectedUsers) |->
                            UserEntry(users[OrderByFullName(SelectedUsers)[k]],
                                      pick[OrderByFullName(SelectedUsers)[k]])])
            /\ UNCHANGED error_log
       ELSE /\ dashboard' = Returned(<<>>)
            /\ error_log' = error_log \cup {"Error in get_users_with_roles"}
    /\ UNCHANGED <<users, has_role, rentals, repoVars, concVars, payVars, roleVars>>

\* The users and the role sets the tables are drawn from.
UserRow(name, rank, enabled) ==
    [name |-> name, email |-> Str(<<"e">>), full_name |-> rank,
     user_image |-> NoneVal, phone |-> NoneVal, enabled |-> enabled]

RoleSetsOfFirst ==
    { {"Tenants"}, {"System Manager"}, {"Tenants", "System Manager"}, {"Tenant"} }

RoleSetsOfSecond == { {"Tenants"}, {"System Manager"} }

\* Row i of the Rental table: dates and rent differ from row to row, every
\* second row names a Property that does not exist.
RentalRow(i, tenant, status, creation) ==
    [name         |-> i,
     tenant       |-> tenant,
     status       |-> status,
     creation     |-> creation,
     property     |-> Num(IF i % 2 = 1 THEN 1 ELSE 2),
     start_date   |-> Num(10 + i),
     end_date     |-> Num(20 + i),
     monthly_rent |-> Num(100 * i)]

RentalChoices == [tenant : {"u1", "u2"}, status : {"Active", "Expired"},
                  creation : {1, 2, 3}]

DashInit ==
    /\ \E e \in {0, 1} : users = <<UserRow("u1", 2, e), UserRow("u2", 1, 1)>>
    /\ \E r1 \in RoleSetsOfFirst : \E r2 \in RoleSetsOfSecond :
          has_role = {[parent |-> "u1", role |-> r] : r \in r1}
                     \cup {[parent |-> "u2", role |-> r] : r \in r2}
    /\ \E choice \in SeqsUpTo(RentalChoices, MaxRentals) :
          rentals = [i \in DOMAIN choice |->
                        RentalRow(i, choice[i].tenant, choice[i].status,
                                  choice[i].creation)]
    /\ dashboard = NoList
    /\ error_log = {}
    /\ properties = CreateOutcome(<<>>, {}, FullScalars, "none").properties
    /\ files = {}
    /\ committed = [properties |-> properties, files |-> {}]
    /\ request = NoRequest
    /\ result = NoResult
    /\ nops = 0
    /\ ConcIdle
    /\ PayIdle
    /\ RoleIdle

DashNext == \E db_ok \in BOOLEAN : get_users_with_roles(db_ok)

SpecDash == DashInit /\ [][DashNext]_vars

\* ------------------------------------------------------------ claims

HasStoragePrefix(x) ==
    /\ x.t = "str"
    /\ \/ StartsWith(x.v, FILES_PREFIX)
       \/ StartsWith(x.v, PRIVATE_FILES_PREFIX)

IsStoredFile(x) == \E file \in files : file.file_url = x

\* C1: after create_property(data) returned a success payload naming id,
\* get_properties() holds a row named id whose eight allowlisted fields equal
\* data.get of the same key.
C1_CreatedPropertyIsListed ==
    (request.op = "create_property" /\ IsSuccess(result)) =>
        \E i \in DOMAIN get_properties(properties) :
            LET row == get_properties(properties)[i]
            IN  /\ row.name = result.property
                /\ \A f \in Range(updateable_fields) :
                        row[f] = Get(request.data, f)

C1_Witness ==
    /\ request.op = "create_property"
    /\ IsSuccess(result)
    /\ \A f \in Range(updateable_fields) : Truthy(Get(request.data, f))

\* C2, as stated: every image field of every stored Property is unset or the
\* URL of a file of the file table.
C2_ImageFieldsAreStoredFiles ==
    \A n \in DOMAIN properties : \A f \in Range(image_fields) :
        properties[n][f] = NoneVal \/ IsStoredFile(properties[n][f])

\* C2, amended: every image field of every stored Property is unset or a
\* string carrying one of the two storage prefixes (the URL save_file
\* returned, or a prefixed string of the request kept as it came); it is
\* never a payload and never a string without the prefix.
C2_ImageFieldsUnsetOrPrefixed ==
    \A n \in DOMAIN properties : \A f \in Range(image_fields) :
        properties[n][f] = NoneVal \/ HasStoragePrefix(properties[n][f])

C2_Witness ==
    \E n \in DOMAIN properties : \E f, g \in Range(image_fields) :
        /\ properties[n][f] # NoneVal
        /\ IsStoredFile(properties[n][f])
        /\ properties[n][g] # NoneVal
        /\ ~IsStoredFile(properties[n][g])

Without(d, key) == [k \in DOMAIN d \ {key} |-> d[k]]

\* C3: a successful update_property whose request carries an image slot with
\* an empty value, on a record whose slot is set, leaves a stored record that
\* differs from the one the same call with the slot omitted leaves.
C3_ClearIsDistinguishable ==
    [][ (request'.op = "update_property" /\ IsSuccess(result')) =>
            \A f \in Range(image_fields) :
                ( /\ f \in DOMAIN request'.data
                  /\ ~Truthy(request'.data[f])
                  /\ properties[request'.name][f] # NoneVal )
                => properties'[request'.name] #
                     UpdateOutcome(properties, files, request'.name,
                                   Without(request'.data, f),
                                   "none").properties[request'.name]
      ]_vars

\* C4: update_property(name, data) for a name that is no stored Property
\* returns exactly the not-found payload carrying that name.
C4_MissingNameIsNotFound ==
    (request.op = "update_property" /\ request.name \notin DOMAIN properties) =>
        result = [error |-> [template |-> "Property with name does not exist",
                             name |-> request.name]]

C4_Witness ==
    /\ request.op = "update_property"
    /\ request.name \notin DOMAIN properties
    /\ DOMAIN request.data # {}
    /\ properties # <<>>

ReturnedNothing(r) == r.raised = "none" /\ r.value = NoneVal

HasFilenameAndContent(x) ==
    /\ x.t = "dict"
    /\ Truthy(Get(x.v, "filename"))
    /\ Truthy(Get(x.v, "content"))

\* What the four outcomes of C5 say of one call: v the value passed, r what
\* came back, fs and fs2 the file table before and after, n the name of the
\* owning document.
FourOutcomes(v, r, fs, fs2, n) ==
    /\ (v.t = "str" /\ HasStoragePrefix(v)) =>
            (r.raised = "none" /\ r.value = v /\ fs2 = fs)
    /\ (v.t = "str" /\ ~HasStoragePrefix(v)) =>
            (ReturnedNothing(r) /\ fs2 = fs)
    /\ (v.t = "none") => (ReturnedNothing(r) /\ fs2 = fs)
    /\ (v.t = "dict" /\ ~HasFilenameAndContent(v)) =>
            (ReturnedNothing(r) /\ fs2 = fs)
    /\ (HasFilenameAndContent(v) /\ r.raised # "SaveFileError") =>
            /\ r.raised = "none"
            /\ HasStoragePrefix(r.value)
            /\ \E file \in fs2 :
                    /\ file.file_url = r.value
                    /\ file.attached_to_doctype = "Property"
                    /\ file.attached_to_name = n
                    /\ fs2 = fs \cup {file}

\* C5, as stated: leaving a failing file store aside, every call of
\* handle_image_upload returns, with one of the four outcomes.
C5_EveryInputHasOneOfFourOutcomes ==
    [][ (request'.op = "handle_image_upload"
            /\ result'.raised # "SaveFileError") =>
            /\ result'.raised = "none"
            /\ FourOutcomes(request'.file_data, result', files, files',
                            request'.name) ]_vars

\* C5, amended: for a value that is None, a string or a dict the helper
\* returns with one of the four outcomes (the last one when save_file
\* returns); for a truthy value of any other type it raises AttributeError
\* and stores no file; a falsy value of any type yields nothing.
C5_OutcomesOfHandleImageUpload ==
    [][ (request'.op = "handle_image_upload") =>
            LET v == request'.file_data
            IN  /\ FourOutcomes(v, result', files, files', request'.name)
                /\ (v.t \notin {"none", "str", "dict"} /\ Truthy(v)) =>
                        (result'.raised = "AttributeError" /\ files' = files)
                /\ ~Truthy(v) => (ReturnedNothing(result') /\ files' = files)
      ]_vars

C5_Witness ==
    /\ request.op = "handle_image_upload"
    /\ HasFilenameAndContent(request.file_data)
    /\ result.raised = "none"
    /\ \E file \in files :
            file.file_url = result.value /\ file.attached_to_name = request.name

ActiveRentalsOf(user) ==
    {i \in DOMAIN rentals :
        rentals[i].tenant = user /\ rentals[i].status = "Active"}

C7_TotalsAddUp ==
    ( /\ total_paid # NotCalled
      /\ total_pending # NotCalled
      /\ \A i \in DOMAIN payments : payments[i].docstatus \in {0, 1} )
    => /\ total_paid.t = "int" /\ total_pending.t = "int"
       /\ total_paid.v + total_pending.v = SumAmounts(payments)
       /\ (\A i \in DOMAIN payments : payments[i].docstatus # 1)
              => total_paid = Num(0)
       /\ (\A i \in DOMAIN payments : payments[i].docstatus # 0)
              => total_pending = Num(0)

C7_Witness ==
    /\ total_paid # NotCalled
    /\ total_pending # NotCalled
    /\ \A i \in DOMAIN payments : payments[i].docstatus \in {0, 1}
    /\ \E i, j \in DOMAIN payments :
          /\ payments[i].docstatus = 0 /\ payments[i].amount_tzs > 0
          /\ payments[j].docstatus = 1 /\ payments[j].amount_tzs > 0

CountRole(table, role_name) ==
    Cardinality({i \in DOMAIN table : table[i].name = role_name})

\* C8: after one run of the patch the Role table holds exactly one Landlord
\* and one Tenant; every later run inserts nothing, raises nothing and leaves
\* the table the first run left.
C8_SeederIsIdempotent ==
    /\ runs >= 1 =>
          /\ CountRole(roles, "Landlord") = 1
          /\ CountRole(roles, "Tenant") = 1
          /\ patch_raised = "none"
          /\ roles = after_first
    /\ runs >= 2 => n_inserted = 0

C8_Witness ==
    /\ runs >= 2
    /\ Len(roles) > 2
    /\ \E i \in DOMAIN roles : roles[i].name = "Landlord" /\ roles[i].is_custom = 1
    /\ \E i \in DOMAIN roles : roles[i].name = "Tenant" /\ roles[i].is_custom = 0

C10_FailedCreateLeavesNoProperty ==
    [][ (request'.op = "create_property" /\ IsError(result')) =>
            properties' = properties ]_vars

====
